---- MODULE Spec2Model ----
(***************************************************************************)
(* Metrics collection and aggregation pipeline of the AWS utilization      *)
(* report tool: get_cloudwatch_metric_data, get_ec2_metrics,               *)
(* get_rds_metrics and get_instance_metrics, as found in                   *)
(* src/server/aws_utils.py and src/attached_assets/aws_utils.py, together *)
(* with the two web applications that call it: the session wizard of       *)
(* src/attached_assets/app.py with its MonitoringConfig table, and the     *)
(* report server of src/server/report_server.py with its report files.     *)
(*                                                                         *)
(* Strings that the code takes apart (selectors, instance class names)     *)
(* are sequences of one-character strings.  Numbers are exact rationals    *)
(* [num, den] in lowest terms.  The cloud provider is the environment:     *)
(* every call either raises or returns a reply chosen nondeterministically.*)
(***************************************************************************)
EXTENDS Integers, Sequences, FiniteSets, TLC

VARIABLES
    impl,             \* which aws_utils module is loaded: "server" | "attached"
    resource_list,    \* argument of get_instance_metrics
    idx,              \* position of the for loop in resource_list (1-based)
    metrics_data,     \* list built and returned by get_instance_metrics
    calls,            \* provider calls issued so far, in order
    pc,               \* control position of the running function
    response,         \* reply of cloudwatch.get_metric_statistics (fetch runs)
    series,           \* value returned by get_cloudwatch_metric_data
    instance_class,   \* instance['DBInstanceClass'] (classification runs)
    total_memory_gb,  \* local of get_rds_metrics after the if/elif chain
    session,          \* Flask session of the wizard (app.py): key -> value
    rows,             \* MonitoringConfig table, in insertion order
    last,             \* the wizard's answer to the latest request
    validation,       \* outcome of the latest POST /credentials
    req,              \* report_server.py: the request each worker is serving
    files             \* public/reports: file name -> content

vars == <<impl, resource_list, idx, metrics_data, calls, pc,
          response, series, instance_class, total_memory_gb,
          session, rows, last, validation, req, files>>

(***************************************************************************)
(* Bounds                                                                  *)
(***************************************************************************)
MaxSelectors == 3     \* longest selector list handed to get_instance_metrics
MaxPoints == 3        \* most datapoints in one reply (fetch runs)
MaxTime == 3          \* timestamps are 1..MaxTime
MaxWorkers == 2       \* requests the report server handles at the same time

(***************************************************************************)
(* Exact rational arithmetic                                               *)
(***************************************************************************)
RECURSIVE GCD(_, _)
GCD(a, b) == IF b = 0 THEN a ELSE GCD(b, a % b)

Rat(n, d) == LET g == GCD(n, d) IN [num |-> n \div g, den |-> d \div g]

Zero == [num |-> 0, den |-> 1]

\* q / k for an integer k > 0, reducing before multiplying
RatDiv(q, k) ==
    LET g == GCD(q.num, k)
    IN  IF q.num = 0 THEN Zero
        ELSE Rat(q.num \div g, q.den * (k \div g))

RatAdd(p, q) == Rat(p.num * q.den + q.num * p.den, p.den * q.den)

RatLess(p, q) == p.num * q.den < q.num * p.den

RECURSIVE RatSum(_)
RatSum(s) == IF s = <<>> THEN Zero ELSE RatAdd(s[1], RatSum(Tail(s)))

\* variant: values[0] in place of min(values)
RatMin_first(s) == s[1]

RECURSIVE RatMin(_)
RatMin(s) ==
    IF Len(s) = 1 THEN s[1]
    ELSE LET m == RatMin(Tail(s)) IN IF RatLess(m, s[1]) THEN m ELSE s[1]

RECURSIVE RatMax(_)
RatMax(s) ==
    IF Len(s) = 1 THEN s[1]
    ELSE LET m == RatMax(Tail(s)) IN IF RatLess(s[1], m) THEN m ELSE s[1]

(***************************************************************************)
(* Python built-ins used by the code                                       *)
(***************************************************************************)
\* str.split('|')
RECURSIVE split(_)
split(s) ==
    IF \A i \in 1..Len(s) : s[i] # "|" THEN <<s>>
    ELSE LET k == CHOOSE i \in 1..Len(s) :
                      s[i] = "|" /\ \A j \in 1..(i - 1) : s[j] # "|"
         IN  <<SubSeq(s, 1, k - 1)>> \o split(SubSeq(s, k + 1, Len(s)))

\* needle in haystack, for str
Contains(needle, hay) ==
    \E i \in 1..(Len(hay) - Len(needle) + 1) :
        SubSeq(hay, i, i + Len(needle) - 1) = needle

\* variant: the datapoints are used in the order the provider returned them
sorted_as_returned(points) == points

\* sorted(points, key=lambda x: x['Timestamp']): stable, ascending
RECURSIVE sorted(_)
sorted(points) ==
    IF points = <<>> THEN <<>>
    ELSE LET n == Len(points)
             x == points[n]
             front == sorted(SubSeq(points, 1, n - 1))
             k == Cardinality({i \in 1..(n - 1) : front[i].Timestamp <= x.Timestamp})
         IN  SubSeq(front, 1, k) \o <<x>> \o SubSeq(front, k + 1, n - 1)

\* str.lower() on the platform names the provider uses
lower(p) == IF p = "Windows" THEN "windows" ELSE p

None == "None"

(***************************************************************************)
(* get_cloudwatch_metric_data                                              *)
(***************************************************************************)
Raised == [raises |-> TRUE]

EmptySeries ==
    [timestamps |-> <<>>, values |-> <<>>,
     average |-> Zero, min |-> Zero, max |-> Zero]

get_cloudwatch_metric_data(reply) ==
    IF reply.raises THEN EmptySeries
    ELSE LET data_points == sorted(reply.Datapoints)
             timestamps == [i \in 1..Len(data_points) |-> data_points[i].Timestamp]
             values == [i \in 1..Len(data_points) |-> Rat(data_points[i].Average, 1)]
         IN  [timestamps |-> timestamps,
              values |-> values,
              average |-> IF values # <<>>
                          THEN RatDiv(RatSum(values), Len(values)) ELSE Zero,
              min |-> IF values # <<>> THEN RatMin(values) ELSE Zero,
              max |-> IF values # <<>> THEN RatMax(values) ELSE Zero]

(***************************************************************************)
(* String literals of the code, as character sequences                     *)
(***************************************************************************)
EC2 == <<"E", "C", "2">>
RDS == <<"R", "D", "S">>
Unknown == <<"U", "n", "k", "n", "o", "w", "n">>

micro == <<"m", "i", "c", "r", "o">>
small == <<"s", "m", "a", "l", "l">>
medium == <<"m", "e", "d", "i", "u", "m">>
large == <<"l", "a", "r", "g", "e">>
xlarge == <<"x">> \o large
xlarge2 == <<"2">> \o xlarge
xlarge4 == <<"4">> \o xlarge

GB == 1024 * 1024 * 1024

(***************************************************************************)
(* get_ec2_metrics (the two modules agree on it)                           *)
(***************************************************************************)
DegradedSeries == EmptySeries

instance_name_of(instance, default) ==
    LET NameTags == IF "Tags" \in DOMAIN instance
                    THEN {i \in 1..Len(instance.Tags) : instance.Tags[i].Key = "Name"}
                    ELSE {}
    IN  IF NameTags = {} THEN default
        ELSE instance.Tags[CHOOSE i \in NameTags : \A j \in NameTags : j <= i].Value

platform_of(instance) ==
    LET platform == IF "Platform" \in DOMAIN instance THEN instance.Platform ELSE "Linux"
    IN  IF platform = None THEN "Linux" ELSE platform

ec2_degraded(instance_id, region) ==
    [id |-> instance_id, name |-> instance_id, type |-> Unknown,
     state |-> "Unknown", platform |-> "Unknown", region |-> region,
     service_type |-> EC2,
     metrics |-> [cpu |-> DegradedSeries, memory |-> DegradedSeries,
                  disk |-> DegradedSeries]]

\* detail lookup: describe_instances raised, or returned no reservation
\* (IndexError on response['Reservations'][0])
ec2_detail_failed(detail) == detail.raises \/ detail.Reservations = <<>>

get_ec2_metrics(instance_id, region, detail, cpu, memory, disk) ==
    IF ec2_detail_failed(detail) THEN ec2_degraded(instance_id, region)
    ELSE LET instance == detail.Reservations[1].Instances[1]
         IN  [id |-> instance_id,
              name |-> instance_name_of(instance, instance_id),
              type |-> instance.InstanceType,
              state |-> instance.State.Name,
              platform |-> platform_of(instance),
              region |-> region,
              service_type |-> EC2,
              metrics |-> [cpu |-> get_cloudwatch_metric_data(cpu),
                           memory |-> get_cloudwatch_metric_data(memory),
                           disk |-> get_cloudwatch_metric_data(disk)]]

\* the provider calls get_ec2_metrics issues for selector number sel
ec2_calls(sel, detail, cpu, memory, disk) ==
    LET describe == <<[sel |-> sel, api |-> "describe_instances", slot |-> "detail",
                       reply |-> detail]>>
    IN  IF ec2_detail_failed(detail) THEN describe
        ELSE LET windows ==
                     lower(platform_of(detail.Reservations[1].Instances[1])) = "windows"
                 Query(slot, name, ns, reply) ==
                     [sel |-> sel, api |-> "get_metric_statistics", slot |-> slot,
                      MetricName |-> name, Namespace |-> ns, reply |-> reply]
             IN  describe \o
                 << Query("cpu", "CPUUtilization", "AWS/EC2", cpu),
                    Query("memory",
                          IF windows THEN "Memory % Committed Bytes In Use"
                                     ELSE "mem_used_percent",
                          "CWAgent", memory),
                    Query("disk",
                          IF windows THEN "LogicalDisk % Free Space"
                                     ELSE "disk_used_percent",
                          "CWAgent", disk) >>

(***************************************************************************)
(* get_rds_metrics                                                         *)
(***************************************************************************)
\* the if/elif chain on instance_class
MemoryForClass(class) ==
    IF Contains(micro, class) THEN 1
    ELSE IF Contains(small, class) THEN 2
    ELSE IF Contains(medium, class) THEN 4
    ELSE IF Contains(large, class) THEN 8
    ELSE IF Contains(xlarge, class) THEN 16
    ELSE IF Contains(xlarge2, class) THEN 32
    ELSE IF Contains(xlarge4, class) THEN 64
    ELSE 8

\* bytes to GB, in place: every value, then average, min and max
to_gb(data) ==
    [data EXCEPT !.values = [i \in 1..Len(data.values) |-> RatDiv(data.values[i], GB)],
                 !.average = RatDiv(data.average, GB),
                 !.min = RatDiv(data.min, GB),
                 !.max = RatDiv(data.max, GB)]

with_total(data, total) ==
    [timestamps |-> data.timestamps, values |-> data.values,
     average |-> data.average, min |-> data.min, max |-> data.max,
     total |-> total]

\* variant: the handler fills every descriptive field, region too, with "Unknown"
rds_degraded_region_lost(instance_id, region) ==
    [id |-> instance_id, name |-> instance_id, type |-> Unknown,
     state |-> "Unknown", engine |-> "Unknown", region |-> Unknown,
     service_type |-> RDS,
     metrics |-> [cpu |-> DegradedSeries,
                  memory |-> with_total(DegradedSeries, 0),
                  disk |-> DegradedSeries]]

rds_degraded(instance_id, region) ==
    [id |-> instance_id, name |-> instance_id, type |-> Unknown,
     state |-> "Unknown", engine |-> "Unknown", region |-> region,
     service_type |-> RDS,
     metrics |-> [cpu |-> DegradedSeries,
                  memory |-> with_total(DegradedSeries, 0),
                  disk |-> DegradedSeries]]

\* describe_db_instances raised, or returned no instance (IndexError)
rds_detail_failed(detail) == detail.raises \/ detail.DBInstances = <<>>

rds_disk(disk) ==
    LET disk_data == get_cloudwatch_metric_data(disk)
    IN  IF disk_data.values # <<>> THEN to_gb(disk_data) ELSE disk_data

\* src/server/aws_utils.py: 'total' is set inside the if, memory_data is returned
get_rds_metrics_server(instance_id, region, detail, cpu, memory, disk) ==
    IF rds_detail_failed(detail) THEN rds_degraded(instance_id, region)
    ELSE LET instance == detail.DBInstances[1]
             fetched == get_cloudwatch_metric_data(memory)
             memory_data ==
                 IF fetched.values # <<>>
                 THEN with_total(to_gb(fetched), MemoryForClass(instance.DBInstanceClass))
                 ELSE fetched
         IN  [id |-> instance_id, name |-> instance_id,
              type |-> instance.DBInstanceClass,
              state |-> instance.DBInstanceStatus,
              engine |-> instance.Engine,
              region |-> region,
              service_type |-> RDS,
              metrics |-> [cpu |-> get_cloudwatch_metric_data(cpu),
                           memory |-> memory_data,
                           disk |-> rds_disk(disk)]]

\* src/attached_assets/aws_utils.py: the returned dict reads total_memory_gb,
\* which is bound only inside the if: with no memory datapoint the read raises
\* NameError, caught by the function's except clause
get_rds_metrics_attached(instance_id, region, detail, cpu, memory, disk) ==
    IF rds_detail_failed(detail) THEN rds_degraded(instance_id, region)
    ELSE LET instance == detail.DBInstances[1]
             fetched == get_cloudwatch_metric_data(memory)
             bound == fetched.values # <<>>
             memory_data == IF bound THEN to_gb(fetched) ELSE fetched
         IN  IF ~bound THEN rds_degraded(instance_id, region)
             ELSE [id |-> instance_id, name |-> instance_id,
                   type |-> instance.DBInstanceClass,
                   state |-> instance.DBInstanceStatus,
                   engine |-> instance.Engine,
                   region |-> region,
                   service_type |-> RDS,
                   metrics |-> [cpu |-> get_cloudwatch_metric_data(cpu),
                                memory |-> with_total(memory_data,
                                              MemoryForClass(instance.DBInstanceClass)),
                                disk |-> rds_disk(disk)]]

get_rds_metrics(module, instance_id, region, detail, cpu, memory, disk) ==
    IF module = "server"
    THEN get_rds_metrics_server(instance_id, region, detail, cpu, memory, disk)
    ELSE get_rds_metrics_attached(instance_id, region, detail, cpu, memory, disk)

\* the provider calls get_rds_metrics issues for selector number sel: the
\* three metric queries all run before the record is built
rds_calls(sel, detail, cpu, memory, disk) ==
    LET describe == <<[sel |-> sel, api |-> "describe_db_instances", slot |-> "detail",
                       reply |-> detail]>>
        Query(slot, name, reply) ==
            [sel |-> sel, api |-> "get_metric_statistics", slot |-> slot,
             MetricName |-> name, Namespace |-> "AWS/RDS", reply |-> reply]
    IN  IF rds_detail_failed(detail) THEN describe
        ELSE describe \o << Query("cpu", "CPUUtilization", cpu),
                            Query("memory", "FreeableMemory", memory),
                            Query("disk", "FreeStorageSpace", disk) >>

(***************************************************************************)
(* Inputs: selector strings                                                *)
(***************************************************************************)
SelEC2 == <<"E", "C", "2", "|", "i", "|", "u">>         \* "EC2|i|u"
SelRDS == <<"R", "D", "S", "|", "d", "|", "w">>         \* "RDS|d|w"
SelBad == <<"B", "A", "D">>                             \* one field
SelFour == <<"E", "C", "2", "|", "i", "|", "u", "|">>   \* "EC2|i|u|": four fields
SelKind == <<"e", "c", "2", "|", "i", "|", "u">>        \* "ec2|i|u": kind not EC2/RDS

Selectors == {SelEC2, SelRDS, SelBad, SelFour, SelKind}

SelectorLists(n) == UNION {[1..k -> Selectors] : k \in 0..n}

(***************************************************************************)
(* Environment: what the provider may answer                               *)
(***************************************************************************)
Point(t, v) == [Timestamp |-> t, Average |-> v]

Reply(points) == [raises |-> FALSE, Datapoints |-> points]

NoData == Reply(<<>>)
\* 0.75 GB at time 2 then 0.5 GB at time 1: returned out of order
TwoPoints == Reply(<<Point(2, 805306368), Point(1, 536870912)>>)
\* 1 GB at time 1
OnePoint == Reply(<<Point(1, 1073741824)>>)

T3Micro == <<"t", "3", ".">> \o micro
DbT3Micro == <<"d", "b", ".", "t", "3", ".">> \o micro
DbR52xlarge == <<"d", "b", ".", "r", "5", ".">> \o xlarge2
Web == <<"w", "e", "b">>
Api == <<"a", "p", "i">>

Ec2Found(instance) == [raises |-> FALSE, Reservations |-> <<[Instances |-> <<instance>>]>>]
Ec2Missing == [raises |-> FALSE, Reservations |-> <<>>]

Ec2Plain == [InstanceType |-> T3Micro, State |-> [Name |-> "running"]]
Ec2Tagged ==
    [InstanceType |-> T3Micro, State |-> [Name |-> "running"],
     Tags |-> <<[Key |-> "Name", Value |-> Web], [Key |-> "env", Value |-> Api],
                [Key |-> "Name", Value |-> Api]>>,
     Platform |-> None]
Ec2Windows ==
    [InstanceType |-> T3Micro, State |-> [Name |-> "stopped"],
     Tags |-> <<[Key |-> "env", Value |-> Web]>>,
     Platform |-> "Windows"]

RdsFound(instance) == [raises |-> FALSE, DBInstances |-> <<instance>>]
RdsMissing == [raises |-> FALSE, DBInstances |-> <<>>]

RdsMicro == [DBInstanceClass |-> DbT3Micro, DBInstanceStatus |-> "available",
             Engine |-> "mysql"]
Rds2xlarge == [DBInstanceClass |-> DbR52xlarge, DBInstanceStatus |-> "stopped",
               Engine |-> "postgres"]

\* a provider: the replies it may give to the detail lookups and to the
\* three metric queries (cpu, memory, disk) of one resource
BatchProvider ==
    [ec2 |-> {Raised, Ec2Missing, Ec2Found(Ec2Tagged)},
     rds |-> {Raised, RdsMissing, RdsFound(RdsMicro)},
     metrics |-> {<<Raised, Raised, Raised>>,
                  <<TwoPoints, TwoPoints, TwoPoints>>,
                  <<TwoPoints, NoData, OnePoint>>,
                  <<OnePoint, Raised, TwoPoints>>}]

MetricReplies == {Raised, NoData, OnePoint, TwoPoints}

ResourceProvider ==
    [ec2 |-> {Raised, Ec2Missing, Ec2Found(Ec2Plain), Ec2Found(Ec2Tagged),
              Ec2Found(Ec2Windows)},
     rds |-> {Raised, RdsMissing, RdsFound(RdsMicro), RdsFound(Rds2xlarge)},
     metrics |-> MetricReplies \X MetricReplies \X MetricReplies]

(***************************************************************************)
(* get_instance_metrics: one action per way an iteration of the loop ends  *)
(***************************************************************************)
Modules == {"server", "attached"}

resource == resource_list[idx]
parts == split(resource)

\* variant: if len(parts) < 3: continue
bad_format_short_only(p) == Len(p) < 3

\* if len(parts) != 3: continue
bad_format(p) == Len(p) # 3

\* service_type, instance_id, region = parts   (ValueError unless 3 items)
unpack(p) ==
    IF Len(p) = 3
    THEN [raises |-> FALSE, service_type |-> p[1], instance_id |-> p[2], region |-> p[3]]
    ELSE Raised

\* variant: metrics_data.insert(0, metrics)
append_front(list, metrics) == <<metrics>> \o list

\* metrics_data.append(metrics)
append(list, metrics) == Append(list, metrics)

InLoop == pc = "loop" /\ idx <= Len(resource_list)

\* a dict: a function whose domain is the set of keys present
EmptyDict == [k \in {} |-> None]

\* d[k] = v
Put(d, k, v) == [x \in DOMAIN d \cup {k} |-> IF x = k THEN v ELSE d[x]]

\* k in d
Has(d, k) == k \in DOMAIN d

\* d.get(k, default)
Get(d, k, default) == IF Has(d, k) THEN d[k] ELSE default

\* threads of the development server that serve requests at the same time
Workers == 1..MaxWorkers

\* a worker between two requests
IdleWorker == [pc |-> "idle"]

\* no request answered yet
NoResponse == [route |-> "none"]

webvars == <<session, rows, last, validation, req, files>>

\* neither web application has served a request
WebOff ==
    /\ session = EmptyDict
    /\ rows = <<>>
    /\ last = NoResponse
    /\ validation = "none"
    /\ req = [w \in Workers |-> IdleWorker]
    /\ files = EmptyDict

Idle == /\ UNCHANGED <<impl, resource_list, response, series,
                       instance_class, total_memory_gb>>
        /\ UNCHANGED webvars

SkipMalformed ==
    /\ InLoop
    /\ bad_format(parts)
    /\ idx' = idx + 1
    /\ UNCHANGED <<metrics_data, calls, pc>>
    /\ Idle

CollectEC2(provider) ==
    /\ InLoop
    /\ ~bad_format(parts)
    /\ LET u == unpack(parts)
       IN  IF u.raises
           THEN /\ pc' = "raised"
                /\ UNCHANGED <<idx, metrics_data, calls>>
           ELSE /\ u.service_type = EC2
                /\ \E detail \in provider.ec2, t \in provider.metrics :
                     /\ metrics_data' = append(metrics_data,
                            get_ec2_metrics(u.instance_id, u.region, detail,
                                            t[1], t[2], t[3]))
                     /\ calls' = calls \o ec2_calls(idx, detail, t[1], t[2], t[3])
                /\ idx' = idx + 1
                /\ pc' = pc
    /\ Idle

CollectRDS(provider) ==
    /\ InLoop
    /\ ~bad_format(parts)
    /\ LET u == unpack(parts)
       IN  IF u.raises
           THEN /\ pc' = "raised"
                /\ UNCHANGED <<idx, metrics_data, calls>>
           ELSE /\ u.service_type # EC2
                /\ u.service_type = RDS
                /\ \E detail \in provider.rds, t \in provider.metrics :
                     /\ metrics_data' = append(metrics_data,
                            get_rds_metrics(impl, u.instance_id, u.region, detail,
                                            t[1], t[2], t[3]))
                     /\ calls' = calls \o rds_calls(idx, detail, t[1], t[2], t[3])
                /\ idx' = idx + 1
                /\ pc' = pc
    /\ Idle

SkipUnknownKind ==
    /\ InLoop
    /\ ~bad_format(parts)
    /\ LET u == unpack(parts)
       IN  IF u.raises
           THEN /\ pc' = "raised"
                /\ idx' = idx
           ELSE /\ u.service_type # EC2
                /\ u.service_type # RDS
                /\ idx' = idx + 1
                /\ pc' = pc
    /\ UNCHANGED <<metrics_data, calls>>
    /\ Idle

Return ==
    /\ pc = "loop"
    /\ idx > Len(resource_list)
    /\ pc' = "done"
    /\ UNCHANGED <<idx, metrics_data, calls>>
    /\ Idle

InitCollect(lists) ==
    /\ impl \in Modules
    /\ resource_list \in lists
    /\ idx = 1
    /\ metrics_data = <<>>
    /\ calls = <<>>
    /\ pc = "loop"
    /\ response = Raised
    /\ series = EmptySeries
    /\ instance_class = <<>>
    /\ total_memory_gb = 0
    /\ WebOff

\* batches of up to MaxSelectors selectors
Init == InitCollect(SelectorLists(MaxSelectors))

Next ==
    \/ SkipMalformed
    \/ SkipUnknownKind
    \/ CollectEC2(BatchProvider)
    \/ CollectRDS(BatchProvider)
    \/ Return

Spec == Init /\ [][Next]_vars

\* one resource at a time, against every combination of provider replies
InitResource == InitCollect(SelectorLists(1))

NextResource ==
    \/ SkipMalformed
    \/ SkipUnknownKind
    \/ CollectEC2(ResourceProvider)
    \/ CollectRDS(ResourceProvider)
    \/ Return

SpecResource == InitResource /\ [][NextResource]_vars

(***************************************************************************)
(* Runs of the two pure computations                                       *)
(***************************************************************************)
SampleValues == {10, 20, 30}

Points == {Point(t, v) : t \in 1..MaxTime, v \in SampleValues}

PointLists == UNION {[1..k -> Points] : k \in 0..MaxPoints}

InitFetch ==
    /\ impl \in Modules
    /\ response \in {Raised} \cup {Reply(l) : l \in PointLists}
    /\ series = EmptySeries
    /\ pc = "fetch"
    /\ resource_list = <<>>
    /\ idx = 1
    /\ metrics_data = <<>>
    /\ calls = <<>>
    /\ instance_class = <<>>
    /\ total_memory_gb = 0
    /\ WebOff

Fetch ==
    /\ pc = "fetch"
    /\ series' = get_cloudwatch_metric_data(response)
    /\ pc' = "fetched"
    /\ UNCHANGED <<impl, resource_list, idx, metrics_data, calls, response,
                   instance_class, total_memory_gb>>
    /\ UNCHANGED webvars

NextFetch == Fetch

SpecFetch == InitFetch /\ [][NextFetch]_vars

Families ==
    { <<"d", "b", ".", "t", "3", ".">>, <<"d", "b", ".", "r", "5", ".">>,
      <<"d", "b", ".", "m", "5", ".">>, <<"d", "b", ".", "x", "2", "g", ".">>,
      <<"d", "b", ".", "m", "6", "g", ".">>,
      <<"d", "b", ".", "u", "n", "k", "n", "o", "w", "n", ".">> }

Sizes ==
    { micro, small, medium, large, xlarge, xlarge2, xlarge4,
      <<"8">> \o xlarge, <<"1", "2">> \o xlarge,
      <<"h", "u", "g", "e">>, <<"n", "a", "n", "o">> }

InstanceClasses == {f \o z : f \in Families, z \in Sizes}

InitClass ==
    /\ impl \in Modules
    /\ instance_class \in InstanceClasses
    /\ total_memory_gb = 0
    /\ pc = "classify"
    /\ resource_list = <<>>
    /\ idx = 1
    /\ metrics_data = <<>>
    /\ calls = <<>>
    /\ response = Raised
    /\ series = EmptySeries
    /\ WebOff

Classify ==
    /\ pc = "classify"
    /\ total_memory_gb' = MemoryForClass(instance_class)
    /\ pc' = "classified"
    /\ UNCHANGED <<impl, resource_list, idx, metrics_data, calls, response,
                   series, instance_class>>
    /\ UNCHANGED webvars

NextClass == Classify

SpecClass == InitClass /\ [][NextClass]_vars

(***************************************************************************)
(* Vocabulary of the properties                                            *)
(***************************************************************************)
\* a selector that splits into 3 fields with kind EC2 or RDS
Recognized(sel) ==
    LET p == split(sel) IN Len(p) = 3 /\ p[1] \in {EC2, RDS}

\* the selectors the loop has gone past
Visited == 1..(idx - 1)

RecognizedVisited == {i \in Visited : Recognized(resource_list[i])}

\* position in resource_list of the selector behind the j-th record
Origin(j) ==
    CHOOSE i \in RecognizedVisited :
        Cardinality({k \in RecognizedVisited : k <= i}) = j

CallsFor(i) == {k \in 1..Len(calls) : calls[k].sel = i}

NoInstance(reply) ==
    \/ reply.raises
    \/ "Reservations" \in DOMAIN reply /\ reply.Reservations = <<>>
    \/ "DBInstances" \in DOMAIN reply /\ reply.DBInstances = <<>>

DetailFailed(i) ==
    \E k \in CallsFor(i) : calls[k].slot = "detail" /\ NoInstance(calls[k].reply)

DetailFound(i) ==
    \E k \in CallsFor(i) : calls[k].slot = "detail" /\ ~NoInstance(calls[k].reply)

Zeroed(s) ==
    /\ s.timestamps = <<>>
    /\ s.values = <<>>
    /\ s.average = Zero
    /\ s.min = Zero
    /\ s.max = Zero

Slots == {"cpu", "memory", "disk"}

(***************************************************************************)
(* C1: every visited selector with 3 fields and kind EC2 or RDS has        *)
(* exactly one record, whatever the provider answered; when its detail     *)
(* lookup failed the record carries the selector's id and region, has      *)
(* state and type (and engine, for RDS) "Unknown", and its cpu, memory and *)
(* disk series are zeroed.                                                 *)
(***************************************************************************)
C1_OneRecordPerSelector ==
    /\ Len(metrics_data) = Cardinality(RecognizedVisited)
    /\ pc = "done" => Visited = 1..Len(resource_list)
    /\ \A j \in 1..Len(metrics_data) :
         LET i == Origin(j)
             p == split(resource_list[i])
             r == metrics_data[j]
         IN  DetailFailed(i) =>
               /\ r.id = p[2]
               /\ r.region = p[3]
               /\ r.state = "Unknown"
               /\ r.type = Unknown
               /\ (p[1] = RDS => r.engine = "Unknown")
               /\ \A m \in Slots : Zeroed(r.metrics[m])

\* a finished batch holding an EC2 and an RDS selector whose lookups failed
C1_Witness ==
    /\ pc = "done"
    /\ \E i, k \in RecognizedVisited :
         /\ DetailFailed(i) /\ split(resource_list[i])[1] = EC2
         /\ DetailFailed(k) /\ split(resource_list[k])[1] = RDS
    /\ Len(metrics_data) >= 2

(***************************************************************************)
(* C2: the (service_type, id, region) of the records, in order, are the    *)
(* visited selectors with 3 fields and kind EC2 or RDS, in input order; a  *)
(* repeated selector yields one record per occurrence.                     *)
(***************************************************************************)
C2_OrderPreserved ==
    LET kept == SelectSeq(SubSeq(resource_list, 1, idx - 1), Recognized)
    IN  /\ Len(metrics_data) = Len(kept)
        /\ \A j \in 1..Len(kept) :
             <<metrics_data[j].service_type, metrics_data[j].id,
               metrics_data[j].region>> = split(kept[j])

\* a finished batch with a selector given twice and a different one between
C2_Witness ==
    /\ pc = "done"
    /\ Len(resource_list) = 3
    /\ resource_list[1] = resource_list[3]
    /\ resource_list[1] # resource_list[2]
    /\ Len(metrics_data) = 3
    /\ metrics_data[1].service_type # metrics_data[2].service_type

(***************************************************************************)
(* C3: a selector that does not split into exactly 3 fields, or whose kind *)
(* is neither EC2 nor RDS, adds no record, causes no provider call and     *)
(* raises nothing; the selectors before and after it are still processed.  *)
(***************************************************************************)
C3_MalformedSkipped ==
    /\ pc # "raised"
    /\ \A i \in Visited :
         IF Recognized(resource_list[i])
         THEN \E k \in CallsFor(i) : calls[k].slot = "detail"
         ELSE CallsFor(i) = {}
    /\ Len(metrics_data) = Cardinality(RecognizedVisited)
    /\ pc = "done" => idx = Len(resource_list) + 1

\* a finished batch with a skipped selector between two processed ones
C3_Witness ==
    /\ pc = "done"
    /\ Len(resource_list) = 3
    /\ Recognized(resource_list[1])
    /\ ~Recognized(resource_list[2])
    /\ Len(split(resource_list[2])) # 3
    /\ Recognized(resource_list[3])
    /\ Len(metrics_data) = 2
    /\ CallsFor(1) # {} /\ CallsFor(3) # {}

(***************************************************************************)
(* What the provider answered for selector i                               *)
(***************************************************************************)
QueryMade(i, slot) == \E k \in CallsFor(i) : calls[k].slot = slot

ReplyOf(i, slot) == calls[CHOOSE k \in CallsFor(i) : calls[k].slot = slot].reply

QueryFailed(i, slot) == QueryMade(i, slot) /\ ReplyOf(i, slot).raises

KindOf(i) == split(resource_list[i])[1]

InstanceOf(i) ==
    LET reply == ReplyOf(i, "detail")
    IN  IF KindOf(i) = EC2 THEN reply.Reservations[1].Instances[1]
        ELSE reply.DBInstances[1]

(***************************************************************************)
(* C4: when the three metric queries of an EC2 or RDS selector fail, each  *)
(* of the cpu, memory and disk series of its record is exactly             *)
(* {timestamps: [], values: [], average: 0, min: 0, max: 0}, with no other *)
(* field.                                                                  *)
(***************************************************************************)
C4_FailedQueriesGiveZeroSeries ==
    \A j \in 1..Len(metrics_data) :
        LET i == Origin(j)
        IN  (\A m \in Slots : QueryFailed(i, m)) =>
                \A m \in Slots : metrics_data[j].metrics[m] = EmptySeries

(***************************************************************************)
(* C5: the total-memory estimate is 1 for a class containing 'micro', 2    *)
(* for 'small', 4 for 'medium', 32 for '2xlarge', 64 for '4xlarge', 16 for *)
(* 'xlarge' without '2xlarge'/'4xlarge', 8 for 'large' without 'xlarge',   *)
(* and 8 for a class matching none of them.                                *)
(***************************************************************************)
ClaimedMemory(class) ==
    IF Contains(micro, class) THEN 1
    ELSE IF Contains(small, class) THEN 2
    ELSE IF Contains(medium, class) THEN 4
    ELSE IF Contains(xlarge2, class) THEN 32
    ELSE IF Contains(xlarge4, class) THEN 64
    ELSE IF Contains(xlarge, class) THEN 16
    ELSE 8

C5_ClassTable ==
    pc = "classified" => total_memory_gb = ClaimedMemory(instance_class)

(***************************************************************************)
(* C6: an RDS record's memory series has a 'total' field exactly when the  *)
(* FreeableMemory query returned at least one datapoint; when it returned  *)
(* none the record is a normal one (real type and state) without 'total'.  *)
(***************************************************************************)
MemoryReturnedData(i) ==
    /\ QueryMade(i, "memory")
    /\ ~ReplyOf(i, "memory").raises
    /\ ReplyOf(i, "memory").Datapoints # <<>>

MemoryReturnedNone(i) ==
    /\ QueryMade(i, "memory")
    /\ ~ReplyOf(i, "memory").raises
    /\ ReplyOf(i, "memory").Datapoints = <<>>

C6_TotalIffMemoryData ==
    \A j \in 1..Len(metrics_data) :
        LET i == Origin(j)
            r == metrics_data[j]
        IN  KindOf(i) = RDS =>
              /\ ("total" \in DOMAIN r.metrics.memory) <=> MemoryReturnedData(i)
              /\ MemoryReturnedNone(i) =>
                   /\ r.type = InstanceOf(i).DBInstanceClass
                   /\ r.state = InstanceOf(i).DBInstanceStatus
                   /\ "total" \notin DOMAIN r.metrics.memory

(***************************************************************************)
(* C7: for every list of datapoints returned, min is the smallest value,   *)
(* max the largest and average the sum of the values over their count;     *)
(* for an empty list the result is the series of zeros with empty          *)
(* timestamps and values.                                                  *)
(***************************************************************************)
RECURSIVE SumOfAverages(_)
SumOfAverages(points) ==
    IF points = <<>> THEN 0 ELSE points[1].Average + SumOfAverages(Tail(points))

C7_Statistics ==
    (pc = "fetched" /\ ~response.raises) =>
        LET points == response.Datapoints
            returned == {points[k].Average : k \in 1..Len(points)}
        IN  IF points = <<>>
            THEN series = [timestamps |-> <<>>, values |-> <<>>,
                           average |-> Zero, min |-> Zero, max |-> Zero]
            ELSE /\ series.min.den = 1
                 /\ series.min.num \in returned
                 /\ \A v \in returned : series.min.num <= v
                 /\ series.max.den = 1
                 /\ series.max.num \in returned
                 /\ \A v \in returned : v <= series.max.num
                 /\ series.average.num * Len(points)
                        = SumOfAverages(points) * series.average.den

\* three datapoints whose first value is not the smallest, whose last is not
\* the largest, and whose mean is not a whole number
C7_Witness ==
    /\ pc = "fetched"
    /\ ~response.raises
    /\ Len(response.Datapoints) = 3
    /\ series.min # series.values[1]
    /\ series.max # series.values[3]
    /\ series.average.den = 3

(***************************************************************************)
(* C9: whatever the order of the returned datapoints, timestamps is        *)
(* ascending and a permutation of their timestamps, and values[i] is the   *)
(* value of the datapoint whose timestamp is timestamps[i].                *)
(***************************************************************************)
C9_SortedAligned ==
    (pc = "fetched" /\ ~response.raises) =>
        LET points == response.Datapoints
            n == Len(points)
        IN  /\ Len(series.timestamps) = n
            /\ Len(series.values) = n
            /\ \A k \in 1..(n - 1) : series.timestamps[k] <= series.timestamps[k + 1]
            /\ \E p \in [1..n -> 1..n] :
                 /\ \A a, b \in 1..n : p[a] = p[b] => a = b
                 /\ \A k \in 1..n :
                      /\ series.timestamps[k] = points[p[k]].Timestamp
                      /\ series.values[k] = [num |-> points[p[k]].Average, den |-> 1]

\* three datapoints returned in descending time order with distinct values
C9_Witness ==
    /\ pc = "fetched"
    /\ ~response.raises
    /\ Len(response.Datapoints) = 3
    /\ response.Datapoints[1].Timestamp > response.Datapoints[2].Timestamp
    /\ response.Datapoints[2].Timestamp > response.Datapoints[3].Timestamp
    /\ response.Datapoints[1].Average # response.Datapoints[3].Average
    /\ series.timestamps = <<1, 2, 3>>

(***************************************************************************)
(* C8: when a metric query of a resource fails while its detail lookup     *)
(* succeeded, that metric's series is the zero series, the record keeps    *)
(* the real type and state of the resource, and the series of the other    *)
(* metrics carry the datapoints the provider returned.                     *)
(***************************************************************************)
C8_OneMetricFailureIsolated ==
    \A j \in 1..Len(metrics_data) :
        LET i == Origin(j)
            r == metrics_data[j]
        IN  (DetailFound(i) /\ \E m \in Slots : QueryFailed(i, m)) =>
              /\ r.type = IF KindOf(i) = EC2 THEN InstanceOf(i).InstanceType
                          ELSE InstanceOf(i).DBInstanceClass
              /\ r.state = IF KindOf(i) = EC2 THEN InstanceOf(i).State.Name
                           ELSE InstanceOf(i).DBInstanceStatus
              /\ \A m \in Slots :
                   IF QueryFailed(i, m) THEN Zeroed(r.metrics[m])
                   ELSE r.metrics[m].timestamps
                          = get_cloudwatch_metric_data(ReplyOf(i, m)).timestamps

(***************************************************************************)
(* C10: in an RDS record the values, average, min and max of the memory    *)
(* and disk series are the fetched FreeableMemory / FreeStorageSpace       *)
(* figures divided by 2^30 once (so the mean of the normalized values is   *)
(* the normalized mean); the RDS cpu series and the three series of an EC2 *)
(* record are the fetched figures unchanged.                               *)
(***************************************************************************)
\* q * 2^30 = raw, computed without leaving 32 bits
IsGBOf(q, raw) ==
    /\ GB % q.den = 0
    /\ q.num <= 2147483647 \div (GB \div q.den)
    /\ q.num * (GB \div q.den) * raw.den = raw.num

NormalizedOnce(s, raw) ==
    /\ s.timestamps = raw.timestamps
    /\ Len(s.values) = Len(raw.values)
    /\ \A k \in 1..Len(raw.values) : IsGBOf(s.values[k], raw.values[k])
    /\ IsGBOf(s.average, raw.average)
    /\ IsGBOf(s.min, raw.min)
    /\ IsGBOf(s.max, raw.max)
    /\ s.values # <<>> =>
         s.average.num * Len(s.values) * RatSum(s.values).den
             = RatSum(s.values).num * s.average.den

C10_NormalizedOnce ==
    \A j \in 1..Len(metrics_data) :
        LET i == Origin(j)
            r == metrics_data[j]
            fetched(m) == get_cloudwatch_metric_data(ReplyOf(i, m))
        IN  DetailFound(i) =>
              IF KindOf(i) = RDS
              THEN /\ r.metrics.cpu = fetched("cpu")
                   /\ NormalizedOnce(r.metrics.memory, fetched("memory"))
                   /\ NormalizedOnce(r.metrics.disk, fetched("disk"))
              ELSE \A m \in Slots : r.metrics[m] = fetched(m)

(***************************************************************************)
(* Resource listing: list_ec2_instances, list_rds_instances and            *)
(* get_all_regions (the same code in both aws_utils modules)               *)
(***************************************************************************)
Unnamed == <<"U", "n", "n", "a", "m", "e", "d">>

\* the result of a call that returned v
Returned(v) == [raises |-> FALSE, value |-> v]

RECURSIVE Concat(_)
\* the items of a list of lists, in order
Concat(lists) == IF lists = <<>> THEN <<>> ELSE Head(lists) \o Concat(Tail(lists))

\* instance[...] raises KeyError when a field the body reads is missing
ec2_unreadable(instance) ==
    \/ ~ {"InstanceId", "InstanceType", "State"} \subseteq DOMAIN instance
    \/ "Name" \notin DOMAIN instance.State

\* the dict built for one instance of describe_instances
ec2_instance_data(instance, region) ==
    [id |-> instance.InstanceId,
     name |-> instance_name_of(instance, Unnamed),
     type |-> instance.InstanceType,
     state |-> instance.State.Name,
     platform |-> platform_of(instance),
     region |-> region,
     service_type |-> EC2]

\* every instance of every reservation, in the order of the reply
Ec2InstancesOf(reply) ==
    Concat([i \in 1..Len(reply.Reservations) |-> reply.Reservations[i].Instances])

\* variant: no try/except around the body
list_ec2_instances_unguarded(region, reply) ==
    LET instances == Ec2InstancesOf(reply)
    IN  IF reply.raises THEN Raised
        ELSE IF \E i \in 1..Len(instances) : ec2_unreadable(instances[i])
        THEN Raised
        ELSE Returned([i \in 1..Len(instances) |-> ec2_instance_data(instances[i], region)])

\* list_ec2_instances: [] on any failure
list_ec2_instances(region, reply) ==
    LET instances == Ec2InstancesOf(reply)
    IN  IF reply.raises THEN Returned(<<>>)
        ELSE IF \E i \in 1..Len(instances) : ec2_unreadable(instances[i])
        THEN Returned(<<>>)
        ELSE Returned([i \in 1..Len(instances) |-> ec2_instance_data(instances[i], region)])

rds_unreadable(instance) ==
    ~ {"DBInstanceIdentifier", "DBInstanceClass", "DBInstanceStatus", "Engine"}
          \subseteq DOMAIN instance

\* the dict built for one instance of describe_db_instances
rds_instance_data(instance, region) ==
    [id |-> instance.DBInstanceIdentifier,
     name |-> instance.DBInstanceIdentifier,
     type |-> instance.DBInstanceClass,
     state |-> instance.DBInstanceStatus,
     engine |-> instance.Engine,
     region |-> region,
     service_type |-> RDS]

\* list_rds_instances: [] on any failure
list_rds_instances(region, reply) ==
    IF reply.raises THEN Returned(<<>>)
    ELSE IF \E i \in 1..Len(reply.DBInstances) : rds_unreadable(reply.DBInstances[i])
    THEN Returned(<<>>)
    ELSE Returned([i \in 1..Len(reply.DBInstances) |->
                       rds_instance_data(reply.DBInstances[i], region)])

DefaultRegions ==
    <<"us-east-1", "us-east-2", "us-west-1", "us-west-2", "eu-west-1",
      "eu-central-1", "ap-south-1">>

\* get_all_regions: the provider's list, the default list on any failure
get_all_regions(reply) ==
    IF reply.raises THEN DefaultRegions
    ELSE [i \in 1..Len(reply.Regions) |-> reply.Regions[i].RegionName]

\* the two describe calls resources() makes for one region
listing_calls(region, cloud) ==
    <<[api |-> "describe_instances", region |-> region, reply |-> cloud.ec2[region]],
      [api |-> "describe_db_instances", region |-> region, reply |-> cloud.rds[region]]>>

RECURSIVE enumerate(_, _, _)
\* the for loop of resources(): acc holds ec2_instances, rds_instances and
\* the calls made so far; an exception leaves the loop
enumerate(regions, cloud, acc) ==
    IF regions = <<>> THEN acc
    ELSE LET region == Head(regions)
             region_ec2 == list_ec2_instances(region, cloud.ec2[region])
             region_rds == list_rds_instances(region, cloud.rds[region])
         IN  IF region_ec2.raises
             THEN [acc EXCEPT !.raises = TRUE,
                              !.calls = @ \o SubSeq(listing_calls(region, cloud), 1, 1)]
             ELSE IF region_rds.raises
             THEN [acc EXCEPT !.raises = TRUE,
                              !.calls = @ \o listing_calls(region, cloud)]
             ELSE enumerate(Tail(regions), cloud,
                      [raises |-> FALSE,
                       ec2_instances |-> acc.ec2_instances \o region_ec2.value,
                       rds_instances |-> acc.rds_instances \o region_rds.value,
                       calls |-> acc.calls \o listing_calls(region, cloud)])

(***************************************************************************)
(* What the provider may answer to the listing calls                       *)
(***************************************************************************)
\* an instance as describe_instances returns it
Listed(instance, id) == [InstanceId |-> id] @@ instance

\* an instance as describe_db_instances returns it
ListedDb(instance, id) == [DBInstanceIdentifier |-> id] @@ instance

Ec2Two(a, b) == [raises |-> FALSE, Reservations |-> <<[Instances |-> <<a>>], [Instances |-> <<b>>]>>]

Ec2Listings ==
    {Raised, Ec2Missing,
     Ec2Two(Listed(Ec2Tagged, <<"i", "1">>), Listed(Ec2Plain, <<"i", "2">>)),
     Ec2Found(Listed(Ec2Windows, <<"i", "3">>)),
     Ec2Found(Ec2Plain)}

RdsListings ==
    {Raised, RdsMissing, RdsFound(ListedDb(RdsMicro, <<"d", "1">>))}

RegionsFound(names) == [raises |-> FALSE, Regions |-> [i \in 1..Len(names) |-> [RegionName |-> names[i]]]]

AllRegions == {DefaultRegions[i] : i \in 1..Len(DefaultRegions)} \cup {"sa-east-1"}

\* the regions whose answers vary from cloud to cloud
VariedRegions == {"us-east-1", "us-east-2"}

\* clouds: the answer to describe_regions and, per region, to the two
\* describe calls; regions outside VariedRegions hold nothing
Clouds(regionReplies, ec2Replies, rdsReplies) ==
    { [regions |-> r,
       ec2 |-> [g \in AllRegions |-> IF g \in VariedRegions THEN e[g] ELSE Ec2Missing],
       rds |-> [g \in AllRegions |-> IF g \in VariedRegions THEN d[g] ELSE RdsMissing]] :
      r \in regionReplies,
      e \in [VariedRegions -> ec2Replies],
      d \in [VariedRegions -> rdsReplies] }

RegionReplies == {Raised, RegionsFound(<<"us-east-2", "sa-east-1", "us-east-1">>)}

AllClouds == Clouds(RegionReplies, Ec2Listings, RdsListings)

\* a cloud that fails in one region and answers in the other, and one that
\* is unreachable
FewClouds ==
    Clouds({Raised}, {Raised}, {Raised}) \cup
    { c \in Clouds({RegionsFound(<<"us-east-2", "us-east-1">>)}, Ec2Listings, RdsListings) :
        /\ c.ec2["us-east-2"] = Raised
        /\ c.ec2["us-east-1"] = Ec2Found(Listed(Ec2Windows, <<"i", "3">>))
        /\ c.rds["us-east-2"] = RdsFound(ListedDb(RdsMicro, <<"d", "1">>))
        /\ c.rds["us-east-1"] = Raised }

(***************************************************************************)
(* Pieces shared by the two web applications                               *)
(***************************************************************************)
MaxRows == 2          \* most rows the MonitoringConfig table comes to hold

\* the variables of the metrics pipeline runs
PipelineIdle ==
    UNCHANGED <<impl, resource_list, idx, metrics_data, calls, pc,
                response, series, instance_class, total_memory_gb>>

\* not value, for the values a form field or a JSON field takes here
falsy(value) == value = None \/ value = ""

\* the provider as one report request sees it: unreachable, or answering
\* with the datapoints of the last period days
Cloud(reachable, period) ==
    IF ~reachable
    THEN [ec2 |-> Raised, rds |-> Raised, metrics |-> <<Raised, Raised, Raised>>]
    ELSE [ec2 |-> Ec2Found(Ec2Tagged), rds |-> RdsFound(RdsMicro),
          metrics |-> IF period = 7 THEN <<TwoPoints, TwoPoints, TwoPoints>>
                      ELSE <<OnePoint, NoData, OnePoint>>]

RECURSIVE for_resource_in(_, _, _, _)
\* the for loop of get_instance_metrics over the selectors not yet visited
for_resource_in(module, list, cloud, data) ==
    IF list = <<>> THEN data
    ELSE LET p == split(Head(list))
             u == unpack(p)
             m == cloud.metrics
         IN  IF bad_format(p) THEN for_resource_in(module, Tail(list), cloud, data)
             ELSE IF u.service_type = EC2
             THEN for_resource_in(module, Tail(list), cloud,
                      append(data, get_ec2_metrics(u.instance_id, u.region, cloud.ec2,
                                                   m[1], m[2], m[3])))
             ELSE IF u.service_type = RDS
             THEN for_resource_in(module, Tail(list), cloud,
                      append(data, get_rds_metrics(module, u.instance_id, u.region,
                                                   cloud.rds, m[1], m[2], m[3])))
             ELSE for_resource_in(module, Tail(list), cloud, data)

\* get_instance_metrics(aws_access_key, aws_secret_key, resource_list, period)
get_instance_metrics(module, list, cloud) == for_resource_in(module, list, cloud, <<>>)

\* generate_pdf_report(account_name, metrics_data): the bytes of a document
\* laid out from exactly these two arguments, or an exception
generate_pdf_report(account_name, data, rendered) ==
    IF rendered
    THEN Returned([title |-> account_name, sections |-> data])
    ELSE Raised

(***************************************************************************)
(* The session wizard, src/attached_assets/app.py                          *)
(***************************************************************************)
AccessKeys == {None, "AKIA"}
SecretKeys == {"wJalr"}
AccountNames == {None, "Acme"}
Selections == {<<>>, <<SelEC2, SelBad>>}
Frequencies == {None, "daily", "weekly", "monthly"}

\* datetime.now().strftime('%d-%m-%Y') on the day of the run
Today == "05-03-2024"

Wizard == impl = "attached" /\ pc = "web"

Redirect(route, method, location) ==
    [route |-> route, method |-> method, status |-> 302, location |-> location]

Page(route, method, template) ==
    [route |-> route, method |-> method, status |-> 200, page |-> template]

Json(route, method, status) ==
    [route |-> route, method |-> method, status |-> status]

\* if 'aws_access_key' not in session or 'aws_secret_key' not in session
no_credentials == ~Has(session, "aws_access_key") \/ ~Has(session, "aws_secret_key")

\* GET /
Index ==
    /\ Wizard
    /\ last' = Page("index", "GET", "index.html")
    /\ UNCHANGED <<session, rows, validation, req, files>>
    /\ PipelineIdle

\* GET /credentials
CredentialsGet ==
    /\ Wizard
    /\ last' = Page("credentials", "GET", "credentials.html")
    /\ UNCHANGED <<session, rows, validation, req, files>>
    /\ PipelineIdle

\* variant: session['account_name'] = request.form.get('aws_access_key')
CredentialsPost_name_from_key ==
    /\ Wizard
    /\ \E access \in AccessKeys, secret \in SecretKeys, name \in AccountNames,
          created \in BOOLEAN :
         /\ session' = Put(Put(Put(session, "aws_access_key", access),
                               "aws_secret_key", secret),
                           "account_name", access)
         /\ validation' = IF created THEN "passed" ELSE "failed"
         /\ last' = IF created
                    THEN Redirect("credentials", "POST", "resources")
                    ELSE Page("credentials", "POST", "credentials.html")
                             @@ [error |-> "Invalid AWS credentials. Please check and try again."]
    /\ UNCHANGED <<rows, req, files>>
    /\ PipelineIdle

\* POST /credentials; created: boto3.client(...) returned a client
CredentialsPost ==
    /\ Wizard
    /\ \E access \in AccessKeys, secret \in SecretKeys, name \in AccountNames,
          created \in BOOLEAN :
         /\ session' = Put(Put(Put(session, "aws_access_key", access),
                               "aws_secret_key", secret),
                           "account_name", name)
         /\ validation' = IF created THEN "passed" ELSE "failed"
         /\ last' = IF created
                    THEN Redirect("credentials", "POST", "resources")
                    ELSE Page("credentials", "POST", "credentials.html")
                             @@ [error |-> "Invalid AWS credentials. Please check and try again."]
    /\ UNCHANGED <<rows, req, files>>
    /\ PipelineIdle

NoInstances == [raises |-> FALSE, ec2_instances |-> <<>>, rds_instances |-> <<>>,
                calls |-> <<>>]

\* GET /resources
ResourcesGet(clouds) ==
    /\ Wizard
    /\ \E cloud \in clouds :
         last' = IF no_credentials
                 THEN Redirect("resources", "GET", "credentials")
                 ELSE LET regions == get_all_regions(cloud.regions)
                          found == enumerate(regions, cloud, NoInstances)
                      IN  IF found.raises
                          THEN Page("resources", "GET", "resources.html")
                                   @@ [error |-> "Failed to retrieve AWS resources",
                                       regions |-> regions, calls |-> found.calls]
                          ELSE Page("resources", "GET", "resources.html")
                                   @@ [ec2_instances |-> found.ec2_instances,
                                       rds_instances |-> found.rds_instances,
                                       regions |-> regions, calls |-> found.calls]
    /\ UNCHANGED <<session, rows, validation, req, files>>
    /\ PipelineIdle

\* POST /resources
ResourcesPost ==
    /\ Wizard
    /\ \E selected_resources \in Selections :
         IF no_credentials
         THEN /\ last' = Redirect("resources", "POST", "credentials")
              /\ UNCHANGED session
         ELSE /\ session' = Put(session, "selected_resources", selected_resources)
              /\ last' = Redirect("resources", "POST", "frequency")
    /\ UNCHANGED <<rows, validation, req, files>>
    /\ PipelineIdle

\* GET /frequency
FrequencyGet ==
    /\ Wizard
    /\ last' = IF ~Has(session, "selected_resources")
               THEN Redirect("frequency", "GET", "resources")
               ELSE Page("frequency", "GET", "frequency.html")
    /\ UNCHANGED <<session, rows, validation, req, files>>
    /\ PipelineIdle

RECURSIVE join(_, _)
\* separator.join(items)
join(items, separator) ==
    IF items = <<>> THEN <<>>
    ELSE IF Len(items) = 1 THEN Head(items)
    ELSE Head(items) \o separator \o join(Tail(items), separator)

\* json.dumps of a list of strings that hold nothing to escape
dumps(list) ==
    <<"[">> \o join([i \in 1..Len(list) |-> <<"\"">> \o list[i] \o <<"\"">>],
                    <<",", " ">>)
            \o <<"]">>

\* MonitoringConfig(account_name=..., resources=..., frequency=...); the id is
\* the next one of the table
MonitoringConfig(table, account_name, resources, frequency) ==
    [id |-> Len(table) + 1, account_name |-> account_name,
     resources |-> resources, frequency |-> frequency]

\* the columns declared nullable=False
not_null(row) == row.account_name # None /\ row.frequency # None

\* variant: db.session.merge of a row that takes the place of the latest one
commit_replacing(table, row, stored) ==
    IF stored /\ not_null(row)
    THEN Returned(IF table = <<>> THEN <<row>>
                  ELSE [table EXCEPT ![Len(table)] = [row EXCEPT !.id = Len(table)]])
    ELSE Raised

\* db.session.add(row); db.session.commit(); stored: the database took the
\* transaction
commit(table, row, stored) ==
    IF stored /\ not_null(row) THEN Returned(Append(table, row)) ELSE Raised

\* POST /frequency
FrequencyPost ==
    /\ Wizard
    /\ Len(rows) < MaxRows
    /\ \E frequency \in Frequencies, stored \in BOOLEAN :
         IF ~Has(session, "selected_resources")
         THEN /\ last' = Redirect("frequency", "POST", "resources")
              /\ UNCHANGED <<session, rows>>
         ELSE /\ session' = Put(session, "frequency", frequency)
              /\ IF ~Has(session, "account_name")
                 THEN /\ last' = Json("frequency", "POST", 500)
                      /\ UNCHANGED rows
                 ELSE LET new_config ==
                              MonitoringConfig(rows, session["account_name"],
                                               dumps(session["selected_resources"]),
                                               frequency)
                          saved == commit(rows, new_config, stored)
                      IN  /\ rows' = IF saved.raises THEN rows ELSE saved.value
                          /\ last' = Redirect("frequency", "POST", "report")
    /\ UNCHANGED <<validation, req, files>>
    /\ PipelineIdle

\* GET /report
ReportGet ==
    /\ Wizard
    /\ last' = IF ~Has(session, "frequency")
               THEN Redirect("report", "GET", "frequency")
               ELSE Page("report", "GET", "report.html")
                        @@ [account_name |-> session["account_name"]]
    /\ UNCHANGED <<session, rows, validation, req, files>>
    /\ PipelineIdle

\* variant: period = 1 if frequency == 'daily' else 7
period_of_not_daily(frequency) == IF frequency = "daily" THEN 1 ELSE 7

\* period = 7 if frequency == 'weekly' else 1
period_of(frequency) == IF frequency = "weekly" THEN 7 ELSE 1

\* POST /generate_report; reachable: the provider answers; rendered:
\* generate_pdf_report returns
GenerateReport ==
    /\ Wizard
    /\ \E reachable \in BOOLEAN, rendered \in BOOLEAN :
         LET aws_access_key == Get(session, "aws_access_key", None)
             aws_secret_key == Get(session, "aws_secret_key", None)
             account_name == Get(session, "account_name", None)
             selected_resources == Get(session, "selected_resources", <<>>)
             frequency == Get(session, "frequency", "daily")
             period == period_of(frequency)
             data == get_instance_metrics("attached", selected_resources,
                                          Cloud(reachable, period))
             pdf_data == generate_pdf_report(account_name, data, rendered)
         IN  last' =
               IF falsy(aws_access_key) \/ falsy(aws_secret_key) \/ falsy(account_name)
               THEN Json("generate_report", "POST", 400)
                        @@ [error |-> "Missing required session data"]
               ELSE IF pdf_data.raises
               THEN Json("generate_report", "POST", 500)
                        @@ [error |-> "str(e)", period |-> period, collected |-> data]
               ELSE Json("generate_report", "POST", 200)
                        @@ [download_name |-> <<account_name, "-", Today, ".pdf">>,
                            body |-> pdf_data.value,
                            period |-> period, collected |-> data]
    /\ UNCHANGED <<session, rows, validation, req, files>>
    /\ PipelineIdle

\* GET /api/ec2_instances?region=...
ApiEc2Instances(clouds) ==
    /\ Wizard
    /\ \E cloud \in clouds, region \in VariedRegions :
         last' = IF no_credentials
                 THEN Json("api_ec2_instances", "GET", 401)
                          @@ [error |-> "No AWS credentials in session"]
                 ELSE LET instances == list_ec2_instances(region, cloud.ec2[region])
                      IN  IF instances.raises
                          THEN Json("api_ec2_instances", "GET", 500)
                                   @@ [error |-> "str(e)"]
                          ELSE Json("api_ec2_instances", "GET", 200)
                                   @@ [ec2_instances |-> instances.value]
    /\ UNCHANGED <<session, rows, validation, req, files>>
    /\ PipelineIdle

\* GET /api/rds_instances?region=...
ApiRdsInstances(clouds) ==
    /\ Wizard
    /\ \E cloud \in clouds, region \in VariedRegions :
         last' = IF no_credentials
                 THEN Json("api_rds_instances", "GET", 401)
                          @@ [error |-> "No AWS credentials in session"]
                 ELSE LET instances == list_rds_instances(region, cloud.rds[region])
                      IN  IF instances.raises
                          THEN Json("api_rds_instances", "GET", 500)
                                   @@ [error |-> "str(e)"]
                          ELSE Json("api_rds_instances", "GET", 200)
                                   @@ [rds_instances |-> instances.value]
    /\ UNCHANGED <<session, rows, validation, req, files>>
    /\ PipelineIdle

(***************************************************************************)
(* The report server, src/server/report_server.py.  The development server *)
(* serves each request on a thread of its own: a request is received and   *)
(* brought to the point where the file is opened, the file is written, and *)
(* the answer is sent, with other requests running in between.             *)
(***************************************************************************)
Server == impl = "server" /\ pc = "web"

\* d without the keys in dropped
Without(d, dropped) == [k \in DOMAIN d \ dropped |-> d[k]]

CompleteBodies ==
    { Put(Put(Put(Put(Put(Put(EmptyDict,
          "cloudAccountId", "42"),
          "resourceIds", <<SelEC2>>),
          "accountName", "Acme"),
          "period", 7),
          "aws_access_key", access),
          "aws_secret_key", "wJalr") : access \in {"AKIA"} }

\* the fields a client leaves out
Omissions ==
    { {}, {"accountName"}, {"resourceIds", "period"},
      {"aws_access_key"}, {"aws_secret_key"} }

\* request.json: JSON objects, one of them with an empty access key
Bodies ==
    { Without(b, o) : b \in CompleteBodies, o \in Omissions }
        \cup { Put(b, "aws_access_key", "") : b \in CompleteBodies }

\* variant: if not aws_access_key and not aws_secret_key
credentials_missing_both(aws_access_key, aws_secret_key) ==
    falsy(aws_access_key) /\ falsy(aws_secret_key)

\* if not aws_access_key or not aws_secret_key
credentials_missing(aws_access_key, aws_secret_key) ==
    falsy(aws_access_key) \/ falsy(aws_secret_key)

\* f"aws-account-utilization-report-{account_name}-{cloud_account_id}.pdf"
report_filename(account_name, cloud_account_id) ==
    <<"aws-account-utilization-report-", account_name, "-", cloud_account_id, ".pdf">>

\* f'/reports/{filename}'
download_url(filename) == <<"/reports/">> \o filename

Answered(data, status, json) ==
    [pc |-> "answered", data |-> data, status |-> status, json |-> json]

\* generate_report() from request.json to the document in memory, against
\* a provider that answers; rendered: generate_pdf_report returns
Receive(w) ==
    /\ Server
    /\ req[w].pc \in {"idle", "answered"}
    /\ \E data \in Bodies, rendered \in BOOLEAN :
         LET cloud_account_id == Get(data, "cloudAccountId", None)
             resource_ids == Get(data, "resourceIds", <<>>)
             account_name == Get(data, "accountName", "AWS Account")
             period == Get(data, "period", 1)
             aws_access_key == Get(data, "aws_access_key", None)
             aws_secret_key == Get(data, "aws_secret_key", None)
             metrics == get_instance_metrics("server", resource_ids,
                                             Cloud(TRUE, period))
             pdf_data == generate_pdf_report(account_name, metrics, rendered)
         IN  req' = [req EXCEPT ![w] =
               IF credentials_missing(aws_access_key, aws_secret_key)
               THEN Answered(data, 400, [error |-> "AWS credentials are required"])
               ELSE IF pdf_data.raises
               THEN Answered(data, 500, [success |-> FALSE, error |-> "str(e)"])
                        @@ [metrics_data |-> metrics]
               ELSE [pc |-> "save", data |-> data, metrics_data |-> metrics,
                     pdf_data |-> pdf_data.value,
                     filename |-> report_filename(account_name, cloud_account_id)]]
    /\ UNCHANGED <<session, rows, last, validation, files>>
    /\ PipelineIdle

\* os.makedirs(...); with open(filepath, 'wb') as f: f.write(pdf_data);
\* opened: the directory and the file could be opened for writing
Save(w) ==
    /\ Server
    /\ req[w].pc = "save"
    /\ \E opened \in BOOLEAN :
         IF opened
         THEN /\ files' = Put(files, req[w].filename, req[w].pdf_data)
              /\ req' = [req EXCEPT ![w].pc = "respond"]
         ELSE /\ req' = [req EXCEPT ![w] =
                    Answered(req[w].data, 500, [success |-> FALSE, error |-> "str(e)"])
                        @@ [metrics_data |-> req[w].metrics_data,
                            pdf_data |-> req[w].pdf_data]]
              /\ UNCHANGED files
    /\ UNCHANGED <<session, rows, last, validation>>
    /\ PipelineIdle

\* return jsonify({'success': True, 'downloadUrl': ...})
Respond(w) ==
    /\ Server
    /\ req[w].pc = "respond"
    /\ req' = [req EXCEPT ![w] =
           Answered(req[w].data, 200,
                    [success |-> TRUE, downloadUrl |-> download_url(req[w].filename)])
               @@ [metrics_data |-> req[w].metrics_data,
                   pdf_data |-> req[w].pdf_data,
                   filename |-> req[w].filename]]
    /\ UNCHANGED <<session, rows, last, validation, files>>
    /\ PipelineIdle

(***************************************************************************)
(* The two applications: each run is one of them serving requests          *)
(***************************************************************************)
InitWeb ==
    /\ impl \in Modules
    /\ pc = "web"
    /\ resource_list = <<>>
    /\ idx = 1
    /\ metrics_data = <<>>
    /\ calls = <<>>
    /\ response = Raised
    /\ series = EmptySeries
    /\ instance_class = <<>>
    /\ total_memory_gb = 0
    /\ WebOff

NextWeb ==
    \/ Index
    \/ CredentialsGet
    \/ CredentialsPost
    \/ ResourcesGet(FewClouds)
    \/ ResourcesPost
    \/ FrequencyGet
    \/ FrequencyPost
    \/ ReportGet
    \/ GenerateReport
    \/ ApiEc2Instances(FewClouds)
    \/ ApiRdsInstances(FewClouds)
    \/ \E w \in Workers : Receive(w)
    \/ \E w \in Workers : Save(w)
    \/ \E w \in Workers : Respond(w)

SpecWeb == InitWeb /\ [][NextWeb]_vars

\* the resources page against every cloud, right after a POST /credentials
\* that was accepted
InitListing ==
    /\ impl = "attached"
    /\ pc = "web"
    /\ resource_list = <<>>
    /\ idx = 1
    /\ metrics_data = <<>>
    /\ calls = <<>>
    /\ response = Raised
    /\ series = EmptySeries
    /\ instance_class = <<>>
    /\ total_memory_gb = 0
    /\ session = Put(Put(Put(EmptyDict, "aws_access_key", "AKIA"),
                         "aws_secret_key", "wJalr"),
                     "account_name", "Acme")
    /\ rows = <<>>
    /\ last = Redirect("credentials", "POST", "resources")
    /\ validation = "passed"
    /\ req = [w \in Workers |-> IdleWorker]
    /\ files = EmptyDict

NextListing == ResourcesGet(AllClouds)

SpecListing == InitListing /\ [][NextListing]_vars

(***************************************************************************)
(* Claims about the two web applications                                   *)
(***************************************************************************)
\* the wizard has just answered a POST /generate_report
ReportAnswered == last.route = "generate_report"

\* the answer comes from a request that went on to collect metrics
MetricsRequested == ReportAnswered /\ "period" \in DOMAIN last

\* C11: in the session-based generate_report the lookback window handed to
\* get_instance_metrics is 7 days when the session frequency is 'weekly' and
\* 1 day for every other value: 'daily', no frequency at all, None, or a
\* string that is neither.
C11_LookbackWindow ==
    MetricsRequested =>
        last.period = IF Has(session, "frequency") /\ session["frequency"] = "weekly"
                      THEN 7 ELSE 1

C11_Witness ==
    /\ MetricsRequested
    /\ Has(session, "frequency")
    /\ session["frequency"] = "monthly"
    /\ last.period = 1

\* worker w has answered the request it holds
AnsweredBy(w) == req[w].pc = "answered"

\* the request lacks the access key or the secret key
LacksKey(access, secret) == falsy(access) \/ falsy(secret)

C12_Wizard ==
    ReportAnswered =>
        LET access == Get(session, "aws_access_key", None)
            secret == Get(session, "aws_secret_key", None)
            name == Get(session, "account_name", None)
        IN  /\ LacksKey(access, secret) =>
                  /\ last.status = 400
                  /\ DOMAIN last \cap {"period", "collected", "body", "download_name"} = {}
            /\ (~LacksKey(access, secret) /\ ~falsy(name)) =>
                  \/ last.status = 200
                  \/ last.status = 500 /\ "error" \in DOMAIN last
            /\ last.status = 200 =>
                  /\ "body" \in DOMAIN last
                  /\ last.body = [title |-> name, sections |-> last.collected]

C12_Server ==
    \A w \in Workers :
        LET access == Get(req[w].data, "aws_access_key", None)
            secret == Get(req[w].data, "aws_secret_key", None)
        IN  /\ req[w].pc \in {"save", "respond"} => ~LacksKey(access, secret)
            /\ AnsweredBy(w) =>
                 /\ LacksKey(access, secret) =>
                      /\ req[w].status = 400
                      /\ DOMAIN req[w] \cap {"metrics_data", "pdf_data", "filename"} = {}
                 /\ ~LacksKey(access, secret) =>
                      \/ req[w].status = 500 /\ ~req[w].json.success
                                             /\ "error" \in DOMAIN req[w].json
                      \/ req[w].status = 200
                 /\ req[w].status = 200 =>
                      /\ req[w].json.success
                      /\ req[w].filename \in DOMAIN files
                      /\ req[w].json.downloadUrl = <<"/reports/">> \o req[w].filename

\* C12: a report request that lacks the access key or the secret key is
\* answered 400 and nothing is collected, rendered or written for it; one
\* that has both is answered either with success, and then its report has
\* been produced (the document sent, or the file behind the downloadUrl
\* written), or with 500 and the error message.
C12_ReportRequestOutcomes == C12_Wizard /\ C12_Server

C12_Witness ==
    \E w \in Workers :
        /\ AnsweredBy(w)
        /\ Has(req[w].data, "aws_access_key")
        /\ ~Has(req[w].data, "aws_secret_key")
        /\ req[w].status = 400
        /\ files # EmptyDict

\* the wizard has just answered a GET /resources that passed the gate
ResourcesServed ==
    last.route = "resources" /\ last.method = "GET" /\ last.status = 200

\* the listing behind a describe call failed: the provider raised, or an
\* instance of the reply lacks a field the listing reads
ListingFailed(call) ==
    \/ call.reply.raises
    \/ IF call.api = "describe_instances"
       THEN \E i \in 1..Len(Ec2InstancesOf(call.reply)) :
                ec2_unreadable(Ec2InstancesOf(call.reply)[i])
       ELSE \E i \in 1..Len(call.reply.DBInstances) :
                rds_unreadable(call.reply.DBInstances[i])

\* the identifiers a describe call returned, in order
ReturnedIds(call) ==
    IF call.api = "describe_instances"
    THEN [i \in 1..Len(Ec2InstancesOf(call.reply)) |->
              Ec2InstancesOf(call.reply)[i].InstanceId]
    ELSE [i \in 1..Len(call.reply.DBInstances) |->
              call.reply.DBInstances[i].DBInstanceIdentifier]

\* the identifiers the page shows for a region, in order
ShownIds(list, region) ==
    LET shown == SelectSeq(list, LAMBDA x : x.region = region)
    IN  [i \in 1..Len(shown) |-> shown[i].id]

\* the list of the page a describe call feeds
ListOf(call) ==
    IF call.api = "describe_instances" THEN last.ec2_instances ELSE last.rds_instances

\* C13: on the resources page a listing that fails for one region and kind
\* contributes nothing for that region and kind and nothing else is lost:
\* the page is rendered without an error, both listings are called for every
\* region in order, and for each call the page shows exactly the instances
\* the call returned, none when it failed.
C13_FailedListingIsolated ==
    ResourcesServed =>
        /\ "error" \notin DOMAIN last
        /\ Len(last.calls) = 2 * Len(last.regions)
        /\ \A i \in 1..Len(last.regions) :
               /\ last.calls[2 * i - 1].api = "describe_instances"
               /\ last.calls[2 * i - 1].region = last.regions[i]
               /\ last.calls[2 * i].api = "describe_db_instances"
               /\ last.calls[2 * i].region = last.regions[i]
        /\ \A k \in 1..Len(last.calls) :
               ShownIds(ListOf(last.calls[k]), last.calls[k].region)
                   = IF ListingFailed(last.calls[k]) THEN <<>>
                     ELSE ReturnedIds(last.calls[k])
        /\ \A k \in 1..Len(last.ec2_instances) :
               \E i \in 1..Len(last.regions) : last.ec2_instances[k].region = last.regions[i]
        /\ \A k \in 1..Len(last.rds_instances) :
               \E i \in 1..Len(last.regions) : last.rds_instances[k].region = last.regions[i]

C13_Witness ==
    /\ ResourcesServed
    /\ "error" \notin DOMAIN last
    /\ \E a, b, c \in 1..Len(last.calls) :
         /\ last.calls[a].api = "describe_instances"
         /\ last.calls[a].reply.raises
         /\ last.calls[b].api = "describe_db_instances"
         /\ last.calls[b].region = last.calls[a].region
         /\ ~ListingFailed(last.calls[b])
         /\ ShownIds(last.rds_instances, last.calls[b].region) # <<>>
         /\ last.calls[c].api = "describe_instances"
         /\ last.calls[c].region # last.calls[a].region
         /\ c > a
         /\ ShownIds(last.ec2_instances, last.calls[c].region) # <<>>

\* the latest POST /credentials was answered with the error
CredentialsRejected == validation = "failed"

\* the answer just given lies beyond the credential gate: the instances were
\* enumerated, a selection was accepted, a configuration was taken, or a
\* report was produced
PastCredentialGate ==
    \/ ResourcesServed
    \/ /\ last.route = "resources" /\ last.method = "POST"
       /\ last.location = "frequency"
    \/ /\ last.route = "frequency" /\ last.method = "POST"
       /\ last.location = "report"
    \/ ReportAnswered /\ last.status = 200

\* C14: once POST /credentials has been answered with the validation error,
\* no request of the session gets past the credential gate until a later
\* POST /credentials succeeds: /resources neither enumerates nor accepts a
\* selection, /frequency takes no configuration and /generate_report
\* produces no report.
C14_RejectedCredentialsBlock == CredentialsRejected => ~PastCredentialGate

\* the file a downloadUrl points to
FileBehind(url) == files[Tail(url)]

\* C15: whatever the interleaving of two report requests, the file behind
\* the downloadUrl returned to a request holds the document generated for
\* that request, also when both requests carry the same accountName and
\* cloudAccountId.
C15_DownloadIsOwnDocument ==
    \A w \in Workers :
        (AnsweredBy(w) /\ req[w].status = 200) =>
            /\ Tail(req[w].json.downloadUrl) \in DOMAIN files
            /\ FileBehind(req[w].json.downloadUrl) = req[w].pdf_data

\* the answer given in this step is the redirect of POST /frequency to the
\* report page
FlowCompletes ==
    /\ last'.route = "frequency"
    /\ last'.method = "POST"
    /\ "location" \in DOMAIN last'
    /\ last'.location = "report"

\* this step adds exactly one row, which holds the session's account name,
\* its selector list in serialized form and its frequency
OneRowInserted ==
    /\ Len(rows') = Len(rows) + 1
    /\ SubSeq(rows', 1, Len(rows)) = rows
    /\ rows'[Len(rows')].account_name = session'["account_name"]
    /\ rows'[Len(rows')].resources = dumps(session'["selected_resources"])
    /\ rows'[Len(rows')].frequency = session'["frequency"]

\* C16: every POST /frequency that redirects the user to the report page has
\* inserted exactly one MonitoringConfig row holding the session's account
\* name, selector list and frequency.
C16_CompletedFlowHasRow == [][FlowCompletes => OneRowInserted]_vars

\* the access keys and secret keys a client may supply
SuppliedKeys ==
    {k \in AccessKeys \cup SecretKeys : ~falsy(k)}
        \cup {b[k] : b \in CompleteBodies, k \in {"aws_access_key", "aws_secret_key"}}

\* no piece of the text is a key
TextFree(text) == \A i \in DOMAIN text : text[i] \notin SuppliedKeys

\* no column of the row holds a key
RowFree(row) ==
    /\ row.account_name \notin SuppliedKeys
    /\ row.frequency \notin SuppliedKeys
    /\ TextFree(row.resources)

\* no field of a resource's section holds a key
SectionFree(r) ==
    /\ TextFree(r.id) /\ TextFree(r.name) /\ TextFree(r.type) /\ TextFree(r.region)
    /\ r.state \notin SuppliedKeys
    /\ \A f \in DOMAIN r \cap {"platform", "engine"} : r[f] \notin SuppliedKeys

\* neither the name nor the content of the file holds a key
FileFree(name) ==
    /\ TextFree(name)
    /\ files[name].title \notin SuppliedKeys
    /\ \A j \in DOMAIN files[name].sections : SectionFree(files[name].sections[j])

IsJsonList(text) ==
    /\ Len(text) >= 2
    /\ text[1] = "["
    /\ text[Len(text)] = "]"

\* C18: every MonitoringConfig row has frequency 'daily' or 'weekly' and a
\* JSON-serialized list as resources.
C18_RowsWellFormed ==
    \A i \in DOMAIN rows :
        /\ rows[i].frequency \in {"daily", "weekly"}
        /\ IsJsonList(rows[i].resources)

\* C19: the configuration store is append-only: in every step the rows
\* present before are all present after, at the same place and with the
\* same fields.
C19_AppendOnly ==
    [][/\ Len(rows') >= Len(rows)
       /\ \A i \in DOMAIN rows : rows'[i] = rows[i]]_vars

C19_Witness ==
    /\ Len(rows) = 2
    /\ rows[1].id = 1
    /\ rows[2].id = 2
    /\ rows[1].account_name = rows[2].account_name
    /\ rows[1].frequency # rows[2].frequency

\* the value of the last tag keyed 'Name', 'Unnamed' without such a tag
ClaimedName(instance) ==
    LET tags == IF "Tags" \in DOMAIN instance THEN instance.Tags ELSE <<>>
        named == SelectSeq(tags, LAMBDA t : t.Key = "Name")
    IN  IF named = <<>> THEN Unnamed ELSE named[Len(named)].Value

\* the provider's platform field is absent or null
PlatformUnset(instance) ==
    "Platform" \notin DOMAIN instance \/ instance.Platform = None

\* record r describes the instance as the claim says
NamedAsClaimed(r, instance) ==
    /\ r.name = ClaimedName(instance)
    /\ PlatformUnset(instance) => r.platform = "Linux"

\* every EC2 record of get_ec2_metrics whose instance was found
Ec2MetricsNamed ==
    \A j \in 1..Len(metrics_data) :
        LET i == Origin(j)
        IN  (KindOf(i) = EC2 /\ DetailFound(i)) =>
                NamedAsClaimed(metrics_data[j], InstanceOf(i))

\* every EC2 entry of the resources page, against the instance it was
\* listed from
Ec2ListingNamed ==
    ResourcesServed =>
        \A k \in 1..Len(last.calls) :
            LET call == last.calls[k]
                shown == SelectSeq(last.ec2_instances,
                                   LAMBDA x : x.region = call.region)
            IN  (call.api = "describe_instances" /\ ~ListingFailed(call)) =>
                    /\ Len(shown) = Len(Ec2InstancesOf(call.reply))
                    /\ \A n \in 1..Len(shown) :
                           NamedAsClaimed(shown[n], Ec2InstancesOf(call.reply)[n])

\* C20: for an EC2 instance, in the listing of list_ec2_instances and in the
\* record of get_ec2_metrics alike, name is the value of the last tag keyed
\* 'Name' and 'Unnamed' when there is no such tag, and platform is 'Linux'
\* when the provider's platform field is absent or null.
C20_Ec2NameAndPlatform == Ec2ListingNamed /\ Ec2MetricsNamed

\* the four things the wizard collects before a configuration is stored
WizardKeys ==
    {"aws_access_key", "aws_secret_key", "account_name", "selected_resources"}

\* the session holds the four keys
HoldsWizardKeys == WizardKeys \subseteq DOMAIN session

\* the session has passed POST /credentials and POST /resources: it holds an
\* access key, a secret key and an account name that POST /credentials
\* accepted, and a selection
PassedEarlierSteps ==
    /\ HoldsWizardKeys
    /\ ~falsy(session["aws_access_key"])
    /\ ~falsy(session["aws_secret_key"])
    /\ ~falsy(session["account_name"])
    /\ validation = "passed"

\* this step inserts a row
RowInserted == Len(rows') = Len(rows) + 1

\* the answer given in this step is that of a POST /frequency
FrequencyPosted == last'.route = "frequency" /\ last'.method = "POST"

\* the inserted row carries what the two earlier steps stored
RowFromSession ==
    /\ rows'[Len(rows')].account_name = session["account_name"]
    /\ rows'[Len(rows')].resources = dumps(session["selected_resources"])

\* a row is inserted only by a session that holds the four keys, and the
\* row carries the session's account name and selector list
InsertNeedsWizardKeys ==
    [][RowInserted => (HoldsWizardKeys /\ RowFromSession)]_vars

\* C21: a MonitoringConfig row is inserted only when the session already
\* holds an access key, a secret key, an account name and a selection, all
\* from a POST /credentials and a POST /resources it has passed; a POST
\* /frequency in any other session redirects and inserts nothing; and the
\* inserted row carries the account name and the selector list those two
\* steps stored.
C21_InsertOnlyAfterEarlierSteps ==
    [][/\ RowInserted => (PassedEarlierSteps /\ RowFromSession)
       /\ (FrequencyPosted /\ ~PassedEarlierSteps) =>
              (last'.status = 302 /\ rows' = rows)]_vars

====
